---- MODULE Spec2Model ----
(***************************************************************************)
(* State-machine model of the Person/Address/Allergy/Medication service    *)
(* (src/main.py, src/models/allergy.py, src/models/medication.py).         *)
(*                                                                         *)
(* Python values: None is the empty tuple, a plain Python dict (the result *)
(* of model_dump, the keyword arguments of a model constructor, an update  *)
(* payload dumped with exclude_unset) maps each key to None or to <<v>>.   *)
(* A validated model instance is a record whose required fields hold the   *)
(* bare value and whose Optional fields hold None or <<v>>.                *)
(***************************************************************************)
EXTENDS Integers, Sequences, FiniteSets, Bags, TLC

VARIABLES
    persons,        \* Dict[UUID, PersonRead]
    addresses,      \* Dict[UUID, AddressRead]
    allergies,      \* Dict[UUID, AllergyRead]
    medications,    \* Dict[UUID, MedicationRead]
    now,            \* the value datetime.utcnow() returns next
    resp,           \* the request being answered and its response, Idle between requests
    workload,       \* the endpoints and payloads the client of this run uses
    threads         \* the requests that worker threads handle line by line

vars == <<persons, addresses, allergies, medications, now, resp, workload, threads>>
stores == <<persons, addresses, allergies, medications>>

\* Largest clock value explored.
MaxClock == 1

None == <<>>
Some(v) == <<v>>

(***************************************************************************)
(* Python dict: insertion ordered, a sequence of [k, v] entries.            *)
(***************************************************************************)
dict_keys(d) == [i \in DOMAIN d |-> d[i].k]

dict_values(d) == [i \in DOMAIN d |-> d[i].v]

dict_contains(d, key) == \E i \in DOMAIN d : d[i].k = key

dict_getitem(d, key) == d[CHOOSE i \in DOMAIN d : d[i].k = key].v

\* A dict whose item assignment forgets the old position of an existing key.
dict_setitem_moves(d, key, value) ==
    SelectSeq(d, LAMBDA e : e.k # key) \o <<[k |-> key, v |-> value]>>

\* An assignment that keeps only the key assigned last.
dict_setitem_evicts(d, key, value) == <<[k |-> key, v |-> value]>>

\* d[key] = value: an existing key keeps its position, a new key goes last.
dict_setitem(d, key, value) ==
    IF dict_contains(d, key)
    THEN [i \in DOMAIN d |-> IF d[i].k = key THEN [k |-> key, v |-> value] ELSE d[i]]
    ELSE Append(d, [k |-> key, v |-> value])

\* An update that takes a key given as None for a key not given.
dict_update_exclude_none(stored, payload) ==
    [f \in (DOMAIN stored) \cup (DOMAIN payload) |->
        IF f \in DOMAIN payload /\ (payload[f] # None \/ f \notin DOMAIN stored)
        THEN payload[f] ELSE stored[f]]

\* stored.update(payload): payload's keys win, the other keys stay.
dict_update(stored, payload) ==
    [f \in (DOMAIN stored) \cup (DOMAIN payload) |->
        IF f \in DOMAIN payload THEN payload[f] ELSE stored[f]]

(***************************************************************************)
(* str(date): the ISO form YYYY-MM-DD; str(None) is "None".                *)
(***************************************************************************)
Digit == <<"0", "1", "2", "3", "4", "5", "6", "7", "8", "9">>

Pad2(n) == Digit[((n \div 10) % 10) + 1] \o Digit[(n % 10) + 1]

Pad4(n) == Pad2(n \div 100) \o Pad2(n % 100)

date_isoformat(d) == Pad4(d.year) \o "-" \o Pad2(d.month) \o "-" \o Pad2(d.day)

str(v) == IF v = None THEN "None" ELSE date_isoformat(v[1])

\* bool(v) of an Optional date or UUID: only None is falsy.
truthy(v) == v # None

\* A value the response carries when there is none.
NoBody == <<>>

Response(op, req, status, detail, body) ==
    [op |-> op, req |-> req, status |-> status, detail |-> detail, body |-> body]

Idle == Response("idle", NoBody, 0, "", NoBody)

\* m.model_dump(): every field as a dict entry; `optional` names the
\* Optional fields, whose value is already None or <<v>>.
model_dump(m, optional) ==
    [f \in DOMAIN m |-> IF f \in optional THEN m[f] ELSE Some(m[f])]

\* A dump that keeps the keys of the body that the schema does not have.
exclude_unset_keeps_extra(body, fields) == body

\* XUpdate(**body).model_dump(exclude_unset=True): the keys of the body that
\* are fields of the update schema, with the body's values; a key the schema
\* does not have is ignored.
exclude_unset(body, fields) == [f \in (DOMAIN body) \cap fields |-> body[f]]

\* A keyword argument, or the field's default when the key is missing.
kwarg(kw, f, default) == IF f \in DOMAIN kw THEN kw[f] ELSE default

\* Validation of the non-Optional fields: `required` must be given and not
\* None, `defaulted` must not be None when given.
fields_valid(kw, required, defaulted) ==
    /\ \A f \in required : f \in DOMAIN kw /\ kw[f] # None
    /\ \A f \in defaulted : f \in DOMAIN kw => kw[f] # None

(***************************************************************************)
(* Allergy (src/models/allergy.py)                                         *)
(***************************************************************************)
AllergyOptional == {"reaction", "noted_date"}

AllergyRequired == {"id", "person_id", "allergen"}

AllergyDefaulted == {"allergy_type", "severity", "created_at", "updated_at"}

AllergyUpdateFields == {"allergen", "allergy_type", "reaction", "severity", "noted_date"}

AllergyRead_valid(kw) == fields_valid(kw, AllergyRequired, AllergyDefaulted)

\* AllergyRead whose two default factories are called in the other order.
AllergyRead_swapped(kw, t1, t2) ==
    [id           |-> kw.id[1],
     person_id    |-> kw.person_id[1],
     allergen     |-> kw.allergen[1],
     allergy_type |-> kwarg(kw, "allergy_type", Some("food"))[1],
     reaction     |-> kwarg(kw, "reaction", None),
     severity     |-> kwarg(kw, "severity", Some("moderate"))[1],
     noted_date   |-> kwarg(kw, "noted_date", None),
     created_at   |-> kwarg(kw, "created_at", Some(t2))[1],
     updated_at   |-> kwarg(kw, "updated_at", Some(t1))[1]]

\* AllergyRead(**kw); t1 and t2 are what datetime.utcnow() returns to the
\* default factories of created_at and of updated_at, called in that order.
AllergyRead(kw, t1, t2) ==
    [id           |-> kw.id[1],
     person_id    |-> kw.person_id[1],
     allergen     |-> kw.allergen[1],
     allergy_type |-> kwarg(kw, "allergy_type", Some("food"))[1],
     reaction     |-> kwarg(kw, "reaction", None),
     severity     |-> kwarg(kw, "severity", Some("moderate"))[1],
     noted_date   |-> kwarg(kw, "noted_date", None),
     created_at   |-> kwarg(kw, "created_at", Some(t1))[1],
     updated_at   |-> kwarg(kw, "updated_at", Some(t2))[1]]

\* create_allergy without the look-up of person_id in persons.
create_allergy_unchecked(allergy, d) ==
    IF dict_contains(allergies, allergy.id)
    THEN /\ resp' = Response("create_allergy", allergy, 400, "Allergy with this ID already exists", NoBody)
         /\ UNCHANGED <<stores, now>>
    ELSE /\ now + d <= MaxClock
         /\ allergies' = dict_setitem(allergies, allergy.id,
                            AllergyRead(model_dump(allergy, AllergyOptional), now, now + d))
         /\ now' = now + d
         /\ resp' = Response("create_allergy", allergy, 201, "", dict_getitem(allergies', allergy.id))
         /\ UNCHANGED <<persons, addresses, medications>>

\* create_allergy that takes an id used by a record of any kind for a duplicate.
create_allergy_global_ids(allergy, d) ==
    IF truthy(Some(allergy.person_id)) /\ ~dict_contains(persons, allergy.person_id)
    THEN /\ resp' = Response("create_allergy", allergy, 400, "person_id does not exist", NoBody)
         /\ UNCHANGED <<stores, now>>
    ELSE IF \/ dict_contains(allergies, allergy.id) \/ dict_contains(persons, allergy.id)
            \/ dict_contains(addresses, allergy.id) \/ dict_contains(medications, allergy.id)
    THEN /\ resp' = Response("create_allergy", allergy, 400, "Allergy with this ID already exists", NoBody)
         /\ UNCHANGED <<stores, now>>
    ELSE /\ now + d <= MaxClock
         /\ allergies' = dict_setitem(allergies, allergy.id,
                            AllergyRead(model_dump(allergy, AllergyOptional), now, now + d))
         /\ now' = now + d
         /\ resp' = Response("create_allergy", allergy, 201, "", dict_getitem(allergies', allergy.id))
         /\ UNCHANGED <<persons, addresses, medications>>

\* POST /allergies. d is the time that passes between the two clock reads.
create_allergy(allergy, d) ==
    IF truthy(Some(allergy.person_id)) /\ ~dict_contains(persons, allergy.person_id)
    THEN /\ resp' = Response("create_allergy", allergy, 400, "person_id does not exist", NoBody)
         /\ UNCHANGED <<stores, now>>
    ELSE IF dict_contains(allergies, allergy.id)
    THEN /\ resp' = Response("create_allergy", allergy, 400, "Allergy with this ID already exists", NoBody)
         /\ UNCHANGED <<stores, now>>
    ELSE /\ now + d <= MaxClock
         /\ allergies' = dict_setitem(allergies, allergy.id,
                            AllergyRead(model_dump(allergy, AllergyOptional), now, now + d))
         /\ now' = now + d
         /\ resp' = Response("create_allergy", allergy, 201, "", dict_getitem(allergies', allergy.id))
         /\ UNCHANGED <<persons, addresses, medications>>

\* The filters of GET /allergies, applied one after the other.
allergies_filtered(q) ==
    LET r0 == dict_values(allergies)
        r1 == IF q.person_id # None
              THEN SelectSeq(r0, LAMBDA a : a.person_id = q.person_id[1]) ELSE r0
        r2 == IF q.allergen # None
              THEN SelectSeq(r1, LAMBDA a : a.allergen = q.allergen[1]) ELSE r1
        r3 == IF q.allergy_type # None
              THEN SelectSeq(r2, LAMBDA a : a.allergy_type = q.allergy_type[1]) ELSE r2
        r4 == IF q.severity # None
              THEN SelectSeq(r3, LAMBDA a : a.severity = q.severity[1]) ELSE r3
        r5 == IF q.noted_date # None
              THEN SelectSeq(r4, LAMBDA a : truthy(a.noted_date)
                                            /\ str(a.noted_date) = q.noted_date[1])
              ELSE r4
    IN  r5

\* GET /allergies
list_allergies(q) ==
    /\ resp' = Response("list_allergies", q, 200, "", allergies_filtered(q))
    /\ UNCHANGED <<stores, now>>

\* What GET /allergies/{allergy_id} answers in the current state.
get_allergy_response(allergy_id) ==
    IF ~dict_contains(allergies, allergy_id)
    THEN Response("get_allergy", allergy_id, 404, "Allergy not found", NoBody)
    ELSE Response("get_allergy", allergy_id, 200, "", dict_getitem(allergies, allergy_id))

\* GET /allergies/{allergy_id}
get_allergy(allergy_id) ==
    /\ resp' = get_allergy_response(allergy_id)
    /\ UNCHANGED <<stores, now>>

\* update_allergy that answers 200 for an id it does not find.
update_allergy_silent(allergy_id, update) ==
    LET req == [id |-> allergy_id, update |-> update] IN
    IF ~dict_contains(allergies, allergy_id)
    THEN /\ resp' = Response("update_allergy", req, 200, "", NoBody)
         /\ UNCHANGED <<stores, now>>
    ELSE LET stored == dict_update(
                           model_dump(dict_getitem(allergies, allergy_id), AllergyOptional),
                           exclude_unset(update, AllergyUpdateFields))
         IN  IF ~AllergyRead_valid(stored)
             THEN /\ resp' = Response("update_allergy", req, 500, "ValidationError", NoBody)
                  /\ UNCHANGED <<stores, now>>
             ELSE /\ allergies' = dict_setitem(allergies, allergy_id, AllergyRead(stored, now, now))
                  /\ resp' = Response("update_allergy", req, 200, "", dict_getitem(allergies', allergy_id))
                  /\ UNCHANGED <<persons, addresses, medications, now>>

\* update_allergy that assigns the payload's fields to the stored record one
\* after the other and stops at the field that is not valid.
update_allergy_field_by_field(allergy_id, update) ==
    LET req == [id |-> allergy_id, update |-> update] IN
    IF ~dict_contains(allergies, allergy_id)
    THEN /\ resp' = Response("update_allergy", req, 404, "Allergy not found", NoBody)
         /\ UNCHANGED <<stores, now>>
    ELSE LET given  == exclude_unset(update, AllergyUpdateFields)
             dump   == model_dump(dict_getitem(allergies, allergy_id), AllergyOptional)
             stored == dict_update(dump, given)
             done   == dict_update(dump, [f \in {g \in DOMAIN given : given[g] # None} |-> given[f]])
         IN  IF ~AllergyRead_valid(stored)
             THEN /\ allergies' = dict_setitem(allergies, allergy_id, AllergyRead(done, now, now))
                  /\ resp' = Response("update_allergy", req, 500, "ValidationError", NoBody)
                  /\ UNCHANGED <<persons, addresses, medications, now>>
             ELSE /\ allergies' = dict_setitem(allergies, allergy_id, AllergyRead(stored, now, now))
                  /\ resp' = Response("update_allergy", req, 200, "", dict_getitem(allergies', allergy_id))
                  /\ UNCHANGED <<persons, addresses, medications, now>>

\* PATCH /allergies/{allergy_id}; update is the request body, of which the
\* handler sees update.model_dump(exclude_unset=True).
\* A ValidationError raised by AllergyRead(**stored) leaves the handler before
\* the assignment and is answered 500.
update_allergy(allergy_id, update) ==
    LET req == [id |-> allergy_id, update |-> update] IN
    IF ~dict_contains(allergies, allergy_id)
    THEN /\ resp' = Response("update_allergy", req, 404, "Allergy not found", NoBody)
         /\ UNCHANGED <<stores, now>>
    ELSE LET stored == dict_update(
                           model_dump(dict_getitem(allergies, allergy_id), AllergyOptional),
                           exclude_unset(update, AllergyUpdateFields))
         IN  IF ~AllergyRead_valid(stored)
             THEN /\ resp' = Response("update_allergy", req, 500, "ValidationError", NoBody)
                  /\ UNCHANGED <<stores, now>>
             ELSE /\ allergies' = dict_setitem(allergies, allergy_id, AllergyRead(stored, now, now))
                  /\ resp' = Response("update_allergy", req, 200, "", dict_getitem(allergies', allergy_id))
                  /\ UNCHANGED <<persons, addresses, medications, now>>

(***************************************************************************)
(* Medication (src/models/medication.py)                                   *)
(***************************************************************************)
MedicationOptional == {"dose", "dose_unit", "instructions", "start_date", "end_date"}

MedicationRequired == {"id", "person_id", "name"}

MedicationDefaulted == {"frequency", "is_current", "created_at", "updated_at"}

MedicationUpdateFields ==
    {"name", "dose", "dose_unit", "frequency", "instructions", "start_date", "end_date",
     "is_current"}

MedicationRead_valid(kw) == fields_valid(kw, MedicationRequired, MedicationDefaulted)

\* MedicationRead(**kw), with the clock reads of its two default factories.
MedicationRead(kw, t1, t2) ==
    [id           |-> kw.id[1],
     person_id    |-> kw.person_id[1],
     name         |-> kw.name[1],
     dose         |-> kwarg(kw, "dose", None),
     dose_unit    |-> kwarg(kw, "dose_unit", None),
     frequency    |-> kwarg(kw, "frequency", Some("as_needed"))[1],
     instructions |-> kwarg(kw, "instructions", None),
     start_date   |-> kwarg(kw, "start_date", None),
     end_date     |-> kwarg(kw, "end_date", None),
     is_current   |-> kwarg(kw, "is_current", Some(FALSE))[1],
     created_at   |-> kwarg(kw, "created_at", Some(t1))[1],
     updated_at   |-> kwarg(kw, "updated_at", Some(t2))[1]]

\* POST /medications
create_medication(med, d) ==
    IF truthy(Some(med.person_id)) /\ ~dict_contains(persons, med.person_id)
    THEN /\ resp' = Response("create_medication", med, 400, "person_id does not exist", NoBody)
         /\ UNCHANGED <<stores, now>>
    ELSE IF dict_contains(medications, med.id)
    THEN /\ resp' = Response("create_medication", med, 400, "Medication with this ID already exists", NoBody)
         /\ UNCHANGED <<stores, now>>
    ELSE /\ now + d <= MaxClock
         /\ medications' = dict_setitem(medications, med.id,
                              MedicationRead(model_dump(med, MedicationOptional), now, now + d))
         /\ now' = now + d
         /\ resp' = Response("create_medication", med, 201, "", dict_getitem(medications', med.id))
         /\ UNCHANGED <<persons, addresses, allergies>>

\* The filters of GET /medications, applied one after the other.
medications_filtered(q) ==
    LET r0 == dict_values(medications)
        r1 == IF q.person_id # None
              THEN SelectSeq(r0, LAMBDA m : m.person_id = q.person_id[1]) ELSE r0
        r2 == IF q.name # None
              THEN SelectSeq(r1, LAMBDA m : m.name = q.name[1]) ELSE r1
        r3 == IF q.frequency # None
              THEN SelectSeq(r2, LAMBDA m : m.frequency = q.frequency[1]) ELSE r2
        r4 == IF q.is_current # None
              THEN SelectSeq(r3, LAMBDA m : m.is_current = q.is_current[1]) ELSE r3
        r5 == IF q.start_date # None
              THEN SelectSeq(r4, LAMBDA m : truthy(m.start_date)
                                            /\ str(m.start_date) = q.start_date[1])
              ELSE r4
        r6 == IF q.end_date # None
              THEN SelectSeq(r5, LAMBDA m : truthy(m.end_date)
                                            /\ str(m.end_date) = q.end_date[1])
              ELSE r5
    IN  r6

\* GET /medications
list_medications(q) ==
    /\ resp' = Response("list_medications", q, 200, "", medications_filtered(q))
    /\ UNCHANGED <<stores, now>>

\* What GET /medications/{medication_id} answers in the current state.
get_medication_response(medication_id) ==
    IF ~dict_contains(medications, medication_id)
    THEN Response("get_medication", medication_id, 404, "Medication not found", NoBody)
    ELSE Response("get_medication", medication_id, 200, "",
                  dict_getitem(medications, medication_id))

\* GET /medications/{medication_id}
get_medication(medication_id) ==
    /\ resp' = get_medication_response(medication_id)
    /\ UNCHANGED <<stores, now>>

\* PATCH /medications/{medication_id}
update_medication(medication_id, update) ==
    LET req == [id |-> medication_id, update |-> update] IN
    IF ~dict_contains(medications, medication_id)
    THEN /\ resp' = Response("update_medication", req, 404, "Medication not found", NoBody)
         /\ UNCHANGED <<stores, now>>
    ELSE LET stored == dict_update(
                           model_dump(dict_getitem(medications, medication_id), MedicationOptional),
                           exclude_unset(update, MedicationUpdateFields))
         IN  IF ~MedicationRead_valid(stored)
             THEN /\ resp' = Response("update_medication", req, 500, "ValidationError", NoBody)
                  /\ UNCHANGED <<stores, now>>
             ELSE /\ medications' = dict_setitem(medications, medication_id,
                                                 MedicationRead(stored, now, now))
                  /\ resp' = Response("update_medication", req, 200, "",
                                      dict_getitem(medications', medication_id))
                  /\ UNCHANGED <<persons, addresses, allergies, now>>

(***************************************************************************)
(* Person (models/person.py, taken from its use in main.py): the fields    *)
(* are the attributes list_persons reads, with id and the two timestamps   *)
(* that the data model gives to every kind.                                *)
(***************************************************************************)
PersonOptional == {"phone", "birth_date"}

PersonRequired == {"id", "uni", "first_name", "last_name", "email"}

PersonDefaulted == {"addresses", "created_at", "updated_at"}

PersonUpdateFields ==
    {"uni", "first_name", "last_name", "email", "phone", "birth_date", "addresses"}

PersonRead_valid(kw) == fields_valid(kw, PersonRequired, PersonDefaulted)

PersonRead(kw, t1, t2) ==
    [id         |-> kw.id[1],
     uni        |-> kw.uni[1],
     first_name |-> kw.first_name[1],
     last_name  |-> kw.last_name[1],
     email      |-> kw.email[1],
     phone      |-> kwarg(kw, "phone", None),
     birth_date |-> kwarg(kw, "birth_date", None),
     addresses  |-> kwarg(kw, "addresses", Some(<<>>))[1],
     created_at |-> kwarg(kw, "created_at", Some(t1))[1],
     updated_at |-> kwarg(kw, "updated_at", Some(t2))[1]]

\* POST /persons: the record is stored under its id with no membership test.
create_person(person, d) ==
    /\ now + d <= MaxClock
    /\ LET person_read == PersonRead(model_dump(person, PersonOptional), now, now + d)
       IN  /\ persons' = dict_setitem(persons, person_read.id, person_read)
           /\ resp' = Response("create_person", person, 201, "", person_read)
    /\ now' = now + d
    /\ UNCHANGED <<addresses, allergies, medications>>

\* all(...) in the place of any(...).
all_address(p, field, value) == \A i \in DOMAIN p.addresses : p.addresses[i][field] = value

\* any(addr.<field> == value for addr in p.addresses)
any_address(p, field, value) == \E i \in DOMAIN p.addresses : p.addresses[i][field] = value

\* The filters of GET /persons, applied one after the other.
persons_filtered(q) ==
    LET r0 == dict_values(persons)
        r1 == IF q.uni # None
              THEN SelectSeq(r0, LAMBDA p : p.uni = q.uni[1]) ELSE r0
        r2 == IF q.first_name # None
              THEN SelectSeq(r1, LAMBDA p : p.first_name = q.first_name[1]) ELSE r1
        r3 == IF q.last_name # None
              THEN SelectSeq(r2, LAMBDA p : p.last_name = q.last_name[1]) ELSE r2
        r4 == IF q.email # None
              THEN SelectSeq(r3, LAMBDA p : p.email = q.email[1]) ELSE r3
        r5 == IF q.phone # None
              THEN SelectSeq(r4, LAMBDA p : p.phone = q.phone) ELSE r4
        r6 == IF q.birth_date # None
              THEN SelectSeq(r5, LAMBDA p : str(p.birth_date) = q.birth_date[1]) ELSE r5
        r7 == IF q.city # None
              THEN SelectSeq(r6, LAMBDA p : any_address(p, "city", q.city[1])) ELSE r6
        r8 == IF q.country # None
              THEN SelectSeq(r7, LAMBDA p : any_address(p, "country", q.country[1])) ELSE r7
    IN  r8

\* GET /persons
list_persons(q) ==
    /\ resp' = Response("list_persons", q, 200, "", persons_filtered(q))
    /\ UNCHANGED <<stores, now>>

\* What GET /persons/{person_id} answers in the current state.
get_person_response(person_id) ==
    IF ~dict_contains(persons, person_id)
    THEN Response("get_person", person_id, 404, "Person not found", NoBody)
    ELSE Response("get_person", person_id, 200, "", dict_getitem(persons, person_id))

\* GET /persons/{person_id}
get_person(person_id) ==
    /\ resp' = get_person_response(person_id)
    /\ UNCHANGED <<stores, now>>

\* PATCH /persons/{person_id}
update_person(person_id, update) ==
    LET req == [id |-> person_id, update |-> update] IN
    IF ~dict_contains(persons, person_id)
    THEN /\ resp' = Response("update_person", req, 404, "Person not found", NoBody)
         /\ UNCHANGED <<stores, now>>
    ELSE LET stored == dict_update(
                           model_dump(dict_getitem(persons, person_id), PersonOptional),
                           exclude_unset(update, PersonUpdateFields))
         IN  IF ~PersonRead_valid(stored)
             THEN /\ resp' = Response("update_person", req, 500, "ValidationError", NoBody)
                  /\ UNCHANGED <<stores, now>>
             ELSE /\ persons' = dict_setitem(persons, person_id, PersonRead(stored, now, now))
                  /\ resp' = Response("update_person", req, 200, "", dict_getitem(persons', person_id))
                  /\ UNCHANGED <<addresses, allergies, medications, now>>

(***************************************************************************)
(* Address (models/address.py, taken from its use in main.py): the fields  *)
(* are the attributes list_addresses reads, with id and the two timestamps *)
(* that the data model gives to every kind.                                *)
(***************************************************************************)
AddressOptional == {"state", "postal_code"}

AddressRequired == {"id", "street", "city", "country"}

AddressDefaulted == {"created_at", "updated_at"}

AddressUpdateFields == {"street", "city", "state", "postal_code", "country"}

AddressRead_valid(kw) == fields_valid(kw, AddressRequired, AddressDefaulted)

AddressRead(kw, t1, t2) ==
    [id          |-> kw.id[1],
     street      |-> kw.street[1],
     city        |-> kw.city[1],
     state       |-> kwarg(kw, "state", None),
     postal_code |-> kwarg(kw, "postal_code", None),
     country     |-> kw.country[1],
     created_at  |-> kwarg(kw, "created_at", Some(t1))[1],
     updated_at  |-> kwarg(kw, "updated_at", Some(t2))[1]]

\* create_address without the membership test, as create_person stores.
create_address_overwrite(address, d) ==
    /\ now + d <= MaxClock
    /\ addresses' = dict_setitem(addresses, address.id,
                       AddressRead(model_dump(address, AddressOptional), now, now + d))
    /\ now' = now + d
    /\ resp' = Response("create_address", address, 201, "", dict_getitem(addresses', address.id))
    /\ UNCHANGED <<persons, allergies, medications>>

\* POST /addresses
create_address(address, d) ==
    IF dict_contains(addresses, address.id)
    THEN /\ resp' = Response("create_address", address, 400, "Address with this ID already exists", NoBody)
         /\ UNCHANGED <<stores, now>>
    ELSE /\ now + d <= MaxClock
         /\ addresses' = dict_setitem(addresses, address.id,
                            AddressRead(model_dump(address, AddressOptional), now, now + d))
         /\ now' = now + d
         /\ resp' = Response("create_address", address, 201, "", dict_getitem(addresses', address.id))
         /\ UNCHANGED <<persons, allergies, medications>>

\* The filters of GET /addresses, applied one after the other.
addresses_filtered(q) ==
    LET r0 == dict_values(addresses)
        r1 == IF q.street # None
              THEN SelectSeq(r0, LAMBDA a : a.street = q.street[1]) ELSE r0
        r2 == IF q.city # None
              THEN SelectSeq(r1, LAMBDA a : a.city = q.city[1]) ELSE r1
        r3 == IF q.state # None
              THEN SelectSeq(r2, LAMBDA a : a.state = q.state) ELSE r2
        r4 == IF q.postal_code # None
              THEN SelectSeq(r3, LAMBDA a : a.postal_code = q.postal_code) ELSE r3
        r5 == IF q.country # None
              THEN SelectSeq(r4, LAMBDA a : a.country = q.country[1]) ELSE r4
    IN  r5

\* GET /addresses
list_addresses(q) ==
    /\ resp' = Response("list_addresses", q, 200, "", addresses_filtered(q))
    /\ UNCHANGED <<stores, now>>

\* What GET /addresses/{address_id} answers in the current state.
get_address_response(address_id) ==
    IF ~dict_contains(addresses, address_id)
    THEN Response("get_address", address_id, 404, "Address not found", NoBody)
    ELSE Response("get_address", address_id, 200, "", dict_getitem(addresses, address_id))

\* GET /addresses/{address_id}
get_address(address_id) ==
    /\ resp' = get_address_response(address_id)
    /\ UNCHANGED <<stores, now>>

\* PATCH /addresses/{address_id}
update_address(address_id, update) ==
    LET req == [id |-> address_id, update |-> update] IN
    IF ~dict_contains(addresses, address_id)
    THEN /\ resp' = Response("update_address", req, 404, "Address not found", NoBody)
         /\ UNCHANGED <<stores, now>>
    ELSE LET stored == dict_update(
                           model_dump(dict_getitem(addresses, address_id), AddressOptional),
                           exclude_unset(update, AddressUpdateFields))
         IN  IF ~AddressRead_valid(stored)
             THEN /\ resp' = Response("update_address", req, 500, "ValidationError", NoBody)
                  /\ UNCHANGED <<stores, now>>
             ELSE /\ addresses' = dict_setitem(addresses, address_id, AddressRead(stored, now, now))
                  /\ resp' = Response("update_address", req, 200, "", dict_getitem(addresses', address_id))
                  /\ UNCHANGED <<persons, allergies, medications, now>>

(***************************************************************************)
(* The client.  A run serves one workload: "mixed" calls every endpoint of *)
(* every kind with few payloads, at most MaxRecords records in all, while  *)
(* the clock runs; each of the other four calls the endpoints of one kind  *)
(* with many payloads, update payloads and filters (the clock stands).     *)
(* The client sends a request when the last one was answered.              *)
(***************************************************************************)
\* Largest number of stored records, all kinds together, of the mixed workload.
MaxRecords == 2

Ids == {"u1", "u2"}

D1 == [year |-> 2023, month |-> 5, day |-> 20]

D2 == [year |-> 2025, month |-> 2, day |-> 1]

D3 == [year |-> 2025, month |-> 2, day |-> 10]

Home(city, country) ==
    [street |-> "1 Main St", city |-> city, state |-> None, postal_code |-> None,
     country |-> country]

AddressLists ==
    {<<>>, <<Home("NYC", "USA")>>, <<Home("NYC", "USA"), Home("SF", "USA")>>,
     <<Home("NYC", "USA"), Home("London", "UK")>>}

Person(id, first_name, birth_date, addrs) ==
    [id |-> id, uni |-> "ab1234", first_name |-> first_name, last_name |-> "Lovelace",
     email |-> "ab1234@columbia.edu", phone |-> None, birth_date |-> birth_date,
     addresses |-> addrs]

PersonCreates ==
    CASE workload = "mixed" ->
            {Person(i, fn, None, <<>>) : i \in Ids, fn \in {"Ada", "Bob"}}
      [] workload = "persons" ->
            {Person(i, "Ada", b, l) : i \in Ids, b \in {None, Some(D1)}, l \in AddressLists}
      [] workload \in {"allergies", "medications", "allergy threads"} ->
            {Person("u1", "Ada", None, <<>>)}
      [] OTHER -> {}

AllergyCreates ==
    CASE workload = "mixed" ->
            {[id |-> i, person_id |-> "u1", allergen |-> "Peanuts", allergy_type |-> "food",
              reaction |-> None, severity |-> "moderate", noted_date |-> None] : i \in Ids}
      [] workload = "allergies" ->
            {[id |-> i, person_id |-> p, allergen |-> "Peanuts", allergy_type |-> "food",
              reaction |-> r, severity |-> s, noted_date |-> n] :
                i \in Ids, p \in Ids, r \in {None, Some("Rash")},
                s \in {"moderate", "severe"}, n \in {None, Some(D1)}}
      [] workload = "allergy threads" ->
            {[id |-> "u1", person_id |-> "u1", allergen |-> a, allergy_type |-> "food",
              reaction |-> None, severity |-> "moderate", noted_date |-> None] :
                a \in {"Peanuts", "Pollen"}}
      [] OTHER -> {}

MedicationCreates ==
    CASE workload = "mixed" ->
            {[id |-> i, person_id |-> "u1", name |-> "X", dose |-> None, dose_unit |-> None,
              frequency |-> "as_needed", instructions |-> None, start_date |-> None,
              end_date |-> None, is_current |-> FALSE] : i \in Ids}
      [] workload = "medications" ->
            {[id |-> i, person_id |-> p, name |-> "X", dose |-> None, dose_unit |-> None,
              frequency |-> "as_needed", instructions |-> None, start_date |-> sd,
              end_date |-> ed, is_current |-> c] :
                i \in Ids, p \in Ids, sd \in {None, Some(D2)}, ed \in {None, Some(D3)},
                c \in BOOLEAN}
      [] OTHER -> {}

AddressCreates ==
    CASE workload = "mixed" ->
            {[id |-> i, street |-> "1 Main St", city |-> c, state |-> None,
              postal_code |-> None, country |-> "USA"] : i \in Ids, c \in {"NYC", "SF"}}
      [] workload = "addresses" ->
            {[id |-> i, street |-> "1 Main St", city |-> c, state |-> st,
              postal_code |-> None, country |-> co] :
                i \in Ids, c \in {"NYC", "SF"}, st \in {None, Some("NY")},
                co \in {"USA", "UK"}}
      [] workload = "address threads" ->
            {[id |-> "u1", street |-> "1 Main St", city |-> c, state |-> None,
              postal_code |-> None, country |-> "USA"] : c \in {"NYC", "SF"}}
      [] OTHER -> {}

\* The values an update payload gives a field: an explicit null or a value.
UpdateValues(f) ==
    CASE f \in {"allergen"} -> {None, Some("Pollen")}
      [] f = "allergy_type" -> {None, Some("drug")}
      [] f = "reaction" -> {None, Some("Rash")}
      [] f = "severity" -> {None, Some("severe")}
      [] f = "noted_date" -> {None, Some(D1)}
      [] f = "name" -> {None, Some("Y")}
      [] f = "dose" -> {None, Some(5)}
      [] f = "dose_unit" -> {None}
      [] f = "frequency" -> {None, Some("as_needed")}
      [] f = "instructions" -> {None}
      [] f = "start_date" -> {None, Some(D2)}
      [] f = "end_date" -> {None, Some(D3)}
      [] f = "is_current" -> {None, Some(TRUE), Some(FALSE)}
      [] f = "uni" -> {None}
      [] f = "first_name" -> {None, Some("Bob")}
      [] f = "last_name" -> {None}
      [] f = "email" -> {None}
      [] f = "phone" -> {None, Some("+1-212-555-0199")}
      [] f = "birth_date" -> {None, Some(D1)}
      [] f = "addresses" -> {None, Some(<<Home("SF", "USA")>>)}
      [] f = "street" -> {None}
      [] f = "city" -> {None, Some("SF")}
      [] f = "state" -> {None, Some("NY")}
      [] f = "postal_code" -> {None, Some("10027")}
      [] f = "country" -> {None, Some("UK")}

\* The update payloads that set at most two of `fields`.
UpdatePayloads(fields) ==
    {<<>>}
    \cup UNION {{f :> v : v \in UpdateValues(f)} : f \in fields}
    \cup UNION {{(fg[1] :> v) @@ (fg[2] :> w) : v \in UpdateValues(fg[1]), w \in UpdateValues(fg[2])} :
                    fg \in {x \in fields \X fields : x[1] # x[2]}}

PersonUpdates ==
    CASE workload = "mixed" ->
            {[first_name |-> Some("Bob")], [birth_date |-> None],
             [id |-> Some("u2"), created_at |-> Some(MaxClock + 1), first_name |-> Some("Bob")]}
      [] workload = "persons" -> UpdatePayloads(PersonUpdateFields)
      [] OTHER -> {}

AllergyUpdates ==
    CASE workload = "mixed" ->
            {[reaction |-> Some("Rash")], [reaction |-> None],
             [id |-> Some("u2"), person_id |-> Some("u2"), created_at |-> Some(MaxClock + 1),
              reaction |-> Some("Rash")]}
      [] workload = "allergies" -> UpdatePayloads(AllergyUpdateFields)
      [] workload = "allergy threads" ->
            {[reaction |-> Some("Rash")], [severity |-> Some("severe"), noted_date |-> Some(D1)]}
      [] OTHER -> {}

MedicationUpdates ==
    CASE workload = "mixed" ->
            {[dose |-> Some(5)], [dose |-> None],
             [id |-> Some("u2"), person_id |-> Some("u2"), created_at |-> Some(MaxClock + 1),
              dose |-> Some(5)]}
      [] workload = "medications" -> UpdatePayloads(MedicationUpdateFields)
      [] OTHER -> {}

AddressUpdates ==
    CASE workload = "mixed" ->
            {[city |-> Some("SF")], [state |-> None],
             [id |-> Some("u2"), created_at |-> Some(MaxClock + 1), city |-> Some("SF")]}
      [] workload = "addresses" -> UpdatePayloads(AddressUpdateFields)
      [] workload = "address threads" ->
            {[state |-> Some("NY")], [country |-> Some("UK"), postal_code |-> Some("10027")]}
      [] OTHER -> {}

Either(v) == {None, Some(v)}

PersonQueries ==
    CASE workload = "mixed" ->
            [uni : {None}, first_name : Either("Ada"), last_name : {None}, email : {None},
             phone : {None}, birth_date : {None}, city : {None}, country : {None}]
      [] workload = "persons" ->
            [uni : Either("ab1234"), first_name : Either("Ada"),
             last_name : Either("Lovelace"), email : Either("ab1234@columbia.edu"),
             phone : Either("+1-212-555-0199"), birth_date : {None}, city : {None},
             country : {None}]
            \cup
            [uni : {None}, first_name : Either("Ada"), last_name : {None}, email : {None},
             phone : {None}, birth_date : {None, Some("2023-05-20"), Some("None")},
             city : {None, Some("NYC"), Some("SF"), Some("LA")},
             country : {None, Some("UK")}]
      [] OTHER -> {}

AllergyQueries ==
    CASE workload = "mixed" ->
            [person_id : Either("u1"), allergen : {None}, allergy_type : {None},
             severity : {None}, noted_date : {None}]
      [] workload = "allergies" ->
            [person_id : Either("u1"), allergen : Either("Peanuts"),
             allergy_type : Either("food"), severity : Either("severe"),
             noted_date : {None, Some("2023-05-20"), Some("None")}]
      [] workload = "allergy threads" ->
            [person_id : {None}, allergen : {None}, allergy_type : {None},
             severity : Either("severe"), noted_date : {None}]
      [] OTHER -> {}

MedicationQueries ==
    CASE workload = "mixed" ->
            [person_id : Either("u1"), name : {None}, frequency : {None},
             is_current : {None}, start_date : {None}, end_date : {None}]
      [] workload = "medications" ->
            [person_id : Either("u1"), name : Either("X"), frequency : Either("as_needed"),
             is_current : {None, Some(TRUE), Some(FALSE)},
             start_date : {None, Some("2025-02-01"), Some("None")},
             end_date : {None, Some("2025-02-10"), Some("None")}]
      [] OTHER -> {}

AddressQueries ==
    CASE workload = "mixed" ->
            [street : {None}, city : Either("NYC"), state : {None}, postal_code : {None},
             country : {None}]
      [] workload = "addresses" ->
            [street : Either("1 Main St"), city : Either("NYC"), state : Either("NY"),
             postal_code : Either("10027"), country : Either("USA")]
      [] workload = "address threads" ->
            [street : {None}, city : {None}, state : {None}, postal_code : {None},
             country : Either("UK")]
      [] OTHER -> {}

\* The time that may pass between the two clock reads of one constructor.
ClockSteps == IF workload = "mixed" THEN {0, 1} ELSE {0}

TotalRecords == Len(persons) + Len(addresses) + Len(allergies) + Len(medications)

\* The mixed workload stops adding records at MaxRecords.
Room(store, id) ==
    workload = "mixed" => (TotalRecords < MaxRecords \/ dict_contains(store, id))

Ready == resp = Idle

CreatePerson ==
    /\ Ready
    /\ \E p \in PersonCreates, d \in ClockSteps : Room(persons, p.id) /\ create_person(p, d)
    /\ UNCHANGED <<workload, threads>>

ListPersons == Ready /\ (\E q \in PersonQueries : list_persons(q)) /\ UNCHANGED <<workload, threads>>

GetPerson == Ready /\ (\E i \in Ids : get_person(i)) /\ UNCHANGED <<workload, threads>>

UpdatePerson ==
    Ready /\ (\E i \in Ids, u \in PersonUpdates : update_person(i, u)) /\ UNCHANGED <<workload, threads>>

CreateAddress ==
    /\ Ready
    /\ \E a \in AddressCreates, d \in ClockSteps : Room(addresses, a.id) /\ create_address(a, d)
    /\ UNCHANGED <<workload, threads>>

ListAddresses == Ready /\ (\E q \in AddressQueries : list_addresses(q)) /\ UNCHANGED <<workload, threads>>

GetAddress == Ready /\ (\E i \in Ids : get_address(i)) /\ UNCHANGED <<workload, threads>>

UpdateAddress ==
    Ready /\ (\E i \in Ids, u \in AddressUpdates : update_address(i, u)) /\ UNCHANGED <<workload, threads>>

CreateAllergy ==
    /\ Ready
    /\ \E a \in AllergyCreates, d \in ClockSteps : Room(allergies, a.id) /\ create_allergy(a, d)
    /\ UNCHANGED <<workload, threads>>

ListAllergies == Ready /\ (\E q \in AllergyQueries : list_allergies(q)) /\ UNCHANGED <<workload, threads>>

GetAllergy == Ready /\ (\E i \in Ids : get_allergy(i)) /\ UNCHANGED <<workload, threads>>

UpdateAllergy ==
    Ready /\ (\E i \in Ids, u \in AllergyUpdates : update_allergy(i, u)) /\ UNCHANGED <<workload, threads>>

CreateMedication ==
    /\ Ready
    /\ \E m \in MedicationCreates, d \in ClockSteps :
            Room(medications, m.id) /\ create_medication(m, d)
    /\ UNCHANGED <<workload, threads>>

ListMedications ==
    Ready /\ (\E q \in MedicationQueries : list_medications(q)) /\ UNCHANGED <<workload, threads>>

GetMedication == Ready /\ (\E i \in Ids : get_medication(i)) /\ UNCHANGED <<workload, threads>>

UpdateMedication ==
    /\ Ready
    /\ \E i \in Ids, u \in MedicationUpdates : update_medication(i, u)
    /\ UNCHANGED <<workload, threads>>

\* The response reaches the client.
Deliver ==
    /\ ~Ready
    /\ resp' = Idle
    /\ UNCHANGED <<stores, now, workload, threads>>

\* Time passes between two requests.
Tick ==
    /\ Ready
    /\ now < MaxClock
    /\ now' = now + 1
    /\ UNCHANGED <<stores, resp, workload, threads>>

Handlers ==
    \/ CreatePerson \/ ListPersons \/ GetPerson \/ UpdatePerson
    \/ CreateAddress \/ ListAddresses \/ GetAddress \/ UpdateAddress
    \/ CreateAllergy \/ ListAllergies \/ GetAllergy \/ UpdateAllergy
    \/ CreateMedication \/ ListMedications \/ GetMedication \/ UpdateMedication
    \/ Deliver

Empty ==
    /\ persons = <<>>
    /\ addresses = <<>>
    /\ allergies = <<>>
    /\ medications = <<>>
    /\ now = 0
    /\ resp = Idle
    /\ threads = EmptyBag

Init == Empty /\ workload = "mixed"

Next == Handlers \/ Tick

Spec == Init /\ [][Next]_vars

InitFields == Empty /\ workload \in {"persons", "addresses", "allergies", "medications"}

NextFields == Handlers

SpecFields == InitFields /\ [][NextFields]_vars

(***************************************************************************)
(* Worker threads.  The handlers are plain `def` functions, which the      *)
(* framework runs in the threads of a pool: two requests may be handled at *)
(* the same time, and another thread may run between any two statements of *)
(* a handler.  A thread is at a line of src/main.py (pc, 0 when the        *)
(* handler has returned or raised); one step runs the statement of that    *)
(* line, with one access to a store.  `stored` is the handler's local of   *)
(* that name, `record` the record the handler has built and assigned.      *)
(* The threads are a bag: how many threads are in which state.             *)
(***************************************************************************)
\* Largest number of requests of a run of threads.
MaxThreads == 3

Thread(op, req, pc) ==
    [op |-> op, req |-> req, pc |-> pc, stored |-> NoBody, record |-> NoBody, resp |-> Idle]

\* Thread t is at `line` of the handler `op`.
At(t, op, line) == t.op = op /\ t.pc = line

\* The threads when thread t has gone on as `new`.
Becomes(t, new) == (threads (-) SetToBag({t})) (+) SetToBag({new})

\* Thread t goes on at `line`.
Goto(t, line) == Becomes(t, [t EXCEPT !.pc = line])

\* Thread t leaves its handler with a response.
Return(t, status, detail, body) ==
    Becomes(t, [t EXCEPT !.pc = 0, !.resp = Response(t.op, t.req, status, detail, body)])

\* if getattr(allergy, "person_id", None) and allergy.person_id not in persons: raise
create_allergy_175 ==
    \E t \in BagToSet(threads) :
        /\ At(t, "create_allergy", 175)
        /\ LET allergy == t.req IN
           threads' =
               IF truthy(Some(allergy.person_id)) /\ ~dict_contains(persons, allergy.person_id)
               THEN Return(t, 400, "person_id does not exist", NoBody)
               ELSE Goto(t, 178)
        /\ UNCHANGED <<stores, now, resp, workload>>

\* if allergy.id in allergies: raise
create_allergy_178 ==
    \E t \in BagToSet(threads) :
        /\ At(t, "create_allergy", 178)
        /\ threads' =
               IF dict_contains(allergies, t.req.id)
               THEN Return(t, 400, "Allergy with this ID already exists", NoBody)
               ELSE Goto(t, 180)
        /\ UNCHANGED <<stores, now, resp, workload>>

\* allergies[allergy.id] = AllergyRead(**allergy.model_dump())
create_allergy_180 ==
    \E t \in BagToSet(threads), d \in ClockSteps :
        /\ At(t, "create_allergy", 180)
        /\ now + d <= MaxClock
        /\ LET allergy == t.req
               record  == AllergyRead(model_dump(allergy, AllergyOptional), now, now + d)
           IN  /\ allergies' = dict_setitem(allergies, allergy.id, record)
               /\ threads' = Becomes(t, [t EXCEPT !.pc = 181, !.record = record])
        /\ now' = now + d
        /\ UNCHANGED <<persons, addresses, medications, resp, workload>>

\* return allergies[allergy.id]
create_allergy_181 ==
    \E t \in BagToSet(threads) :
        /\ At(t, "create_allergy", 181)
        /\ threads' = Return(t, 201, "", dict_getitem(allergies, t.req.id))
        /\ UNCHANGED <<stores, now, resp, workload>>

\* results = list(allergies.values()), then the filters on this list
list_allergies_191 ==
    \E t \in BagToSet(threads) :
        /\ At(t, "list_allergies", 191)
        /\ threads' = Return(t, 200, "", allergies_filtered(t.req))
        /\ UNCHANGED <<stores, now, resp, workload>>

\* if allergy_id not in allergies: raise
get_allergy_208 ==
    \E t \in BagToSet(threads) :
        /\ At(t, "get_allergy", 208)
        /\ threads' =
               IF ~dict_contains(allergies, t.req)
               THEN Return(t, 404, "Allergy not found", NoBody)
               ELSE Goto(t, 210)
        /\ UNCHANGED <<stores, now, resp, workload>>

\* return allergies[allergy_id]
get_allergy_210 ==
    \E t \in BagToSet(threads) :
        /\ At(t, "get_allergy", 210)
        /\ threads' = Return(t, 200, "", dict_getitem(allergies, t.req))
        /\ UNCHANGED <<stores, now, resp, workload>>

\* if allergy_id not in allergies: raise
update_allergy_214 ==
    \E t \in BagToSet(threads) :
        /\ At(t, "update_allergy", 214)
        /\ threads' =
               IF ~dict_contains(allergies, t.req.id)
               THEN Return(t, 404, "Allergy not found", NoBody)
               ELSE Goto(t, 216)
        /\ UNCHANGED <<stores, now, resp, workload>>

\* stored = allergies[allergy_id].model_dump()
\* stored.update(update.model_dump(exclude_unset=True))
update_allergy_216 ==
    \E t \in BagToSet(threads) :
        /\ At(t, "update_allergy", 216)
        /\ LET req == t.req
               stored == dict_update(
                             model_dump(dict_getitem(allergies, req.id), AllergyOptional),
                             exclude_unset(req.update, AllergyUpdateFields))
           IN  threads' = Becomes(t, [t EXCEPT !.pc = 218, !.stored = stored])
        /\ UNCHANGED <<stores, now, resp, workload>>

\* Line 218 as assignments to the fields of the stored record, one after the
\* other; this step assigns the first of them.
update_allergy_218_in_place ==
    \E t \in BagToSet(threads) :
        /\ At(t, "update_allergy", 218)
        /\ LET stored == t.stored
               given  == exclude_unset(t.req.update, AllergyUpdateFields)
               first  == CHOOSE f \in DOMAIN given : TRUE
               dump   == model_dump(dict_getitem(allergies, t.req.id), AllergyOptional)
           IN  IF ~AllergyRead_valid(stored) \/ given = <<>>
               THEN /\ threads' = Return(t, 500, "ValidationError", NoBody)
                    /\ UNCHANGED allergies
               ELSE /\ allergies' = dict_setitem(allergies, t.req.id,
                                        AllergyRead(dict_update(dump, first :> given[first]), now, now))
                    /\ threads' = Becomes(t, [t EXCEPT !.pc = 219, !.record = AllergyRead(stored, now, now)])
        /\ UNCHANGED <<persons, addresses, medications, now, resp, workload>>

\* allergies[allergy_id] = AllergyRead(**stored)
update_allergy_218 ==
    \E t \in BagToSet(threads) :
        /\ At(t, "update_allergy", 218)
        /\ LET stored == t.stored IN
           IF ~AllergyRead_valid(stored)
           THEN /\ threads' = Return(t, 500, "ValidationError", NoBody)
                /\ UNCHANGED allergies
           ELSE LET record == AllergyRead(stored, now, now)
                IN  /\ allergies' = dict_setitem(allergies, t.req.id, record)
                    /\ threads' = Becomes(t, [t EXCEPT !.pc = 219, !.record = record])
        /\ UNCHANGED <<persons, addresses, medications, now, resp, workload>>

\* return allergies[allergy_id]
update_allergy_219 ==
    \E t \in BagToSet(threads) :
        /\ At(t, "update_allergy", 219)
        /\ threads' = Return(t, 200, "", dict_getitem(allergies, t.req.id))
        /\ UNCHANGED <<stores, now, resp, workload>>

\* if address.id in addresses: raise
create_address_64 ==
    \E t \in BagToSet(threads) :
        /\ At(t, "create_address", 64)
        /\ threads' =
               IF dict_contains(addresses, t.req.id)
               THEN Return(t, 400, "Address with this ID already exists", NoBody)
               ELSE Goto(t, 66)
        /\ UNCHANGED <<stores, now, resp, workload>>

\* addresses[address.id] = AddressRead(**address.model_dump())
create_address_66 ==
    \E t \in BagToSet(threads), d \in ClockSteps :
        /\ At(t, "create_address", 66)
        /\ now + d <= MaxClock
        /\ LET address == t.req
               record  == AddressRead(model_dump(address, AddressOptional), now, now + d)
           IN  /\ addresses' = dict_setitem(addresses, address.id, record)
               /\ threads' = Becomes(t, [t EXCEPT !.pc = 67, !.record = record])
        /\ now' = now + d
        /\ UNCHANGED <<persons, allergies, medications, resp, workload>>

\* return addresses[address.id]
create_address_67 ==
    \E t \in BagToSet(threads) :
        /\ At(t, "create_address", 67)
        /\ threads' = Return(t, 201, "", dict_getitem(addresses, t.req.id))
        /\ UNCHANGED <<stores, now, resp, workload>>

\* results = list(addresses.values()), then the filters on this list
list_addresses_77 ==
    \E t \in BagToSet(threads) :
        /\ At(t, "list_addresses", 77)
        /\ threads' = Return(t, 200, "", addresses_filtered(t.req))
        /\ UNCHANGED <<stores, now, resp, workload>>

\* if address_id not in addresses: raise
get_address_94 ==
    \E t \in BagToSet(threads) :
        /\ At(t, "get_address", 94)
        /\ threads' =
               IF ~dict_contains(addresses, t.req)
               THEN Return(t, 404, "Address not found", NoBody)
               ELSE Goto(t, 96)
        /\ UNCHANGED <<stores, now, resp, workload>>

\* return addresses[address_id]
get_address_96 ==
    \E t \in BagToSet(threads) :
        /\ At(t, "get_address", 96)
        /\ threads' = Return(t, 200, "", dict_getitem(addresses, t.req))
        /\ UNCHANGED <<stores, now, resp, workload>>

\* if address_id not in addresses: raise
update_address_100 ==
    \E t \in BagToSet(threads) :
        /\ At(t, "update_address", 100)
        /\ threads' =
               IF ~dict_contains(addresses, t.req.id)
               THEN Return(t, 404, "Address not found", NoBody)
               ELSE Goto(t, 102)
        /\ UNCHANGED <<stores, now, resp, workload>>

\* stored = addresses[address_id].model_dump()
\* stored.update(update.model_dump(exclude_unset=True))
update_address_102 ==
    \E t \in BagToSet(threads) :
        /\ At(t, "update_address", 102)
        /\ LET req == t.req
               stored == dict_update(
                             model_dump(dict_getitem(addresses, req.id), AddressOptional),
                             exclude_unset(req.update, AddressUpdateFields))
           IN  threads' = Becomes(t, [t EXCEPT !.pc = 104, !.stored = stored])
        /\ UNCHANGED <<stores, now, resp, workload>>

\* addresses[address_id] = AddressRead(**stored)
update_address_104 ==
    \E t \in BagToSet(threads) :
        /\ At(t, "update_address", 104)
        /\ LET stored == t.stored IN
           IF ~AddressRead_valid(stored)
           THEN /\ threads' = Return(t, 500, "ValidationError", NoBody)
                /\ UNCHANGED addresses
           ELSE LET record == AddressRead(stored, now, now)
                IN  /\ addresses' = dict_setitem(addresses, t.req.id, record)
                    /\ threads' = Becomes(t, [t EXCEPT !.pc = 105, !.record = record])
        /\ UNCHANGED <<persons, allergies, medications, now, resp, workload>>

\* return addresses[address_id]
update_address_105 ==
    \E t \in BagToSet(threads) :
        /\ At(t, "update_address", 105)
        /\ threads' = Return(t, 200, "", dict_getitem(addresses, t.req.id))
        /\ UNCHANGED <<stores, now, resp, workload>>

\* The requests of the clients of a run of threads, each at the first line
\* of its handler.
Requests ==
    {Thread("create_allergy", a, 175) : a \in AllergyCreates}
    \cup {Thread("list_allergies", q, 191) : q \in AllergyQueries}
    \cup {Thread("get_allergy", a.id, 208) : a \in AllergyCreates}
    \cup {Thread("update_allergy", [id |-> a.id, update |-> u], 214) :
              a \in AllergyCreates, u \in AllergyUpdates}
    \cup {Thread("create_address", a, 64) : a \in AddressCreates}
    \cup {Thread("list_addresses", q, 77) : q \in AddressQueries}
    \cup {Thread("get_address", a.id, 94) : a \in AddressCreates}
    \cup {Thread("update_address", [id |-> a.id, update |-> u], 100) :
              a \in AddressCreates, u \in AddressUpdates}

\* A request arrives and a thread of the pool takes it.
Accept ==
    /\ BagCardinality(threads) < MaxThreads
    /\ \E r \in Requests : threads' = threads (+) SetToBag({r})
    /\ UNCHANGED <<stores, now, resp, workload>>

InitThreads == Empty /\ workload \in {"allergy threads", "address threads"}

NextThreads ==
    \/ Accept
    \/ CreatePerson \/ Deliver
    \/ create_allergy_175 \/ create_allergy_178 \/ create_allergy_180 \/ create_allergy_181
    \/ list_allergies_191
    \/ get_allergy_208 \/ get_allergy_210
    \/ update_allergy_214 \/ update_allergy_216 \/ update_allergy_218 \/ update_allergy_219
    \/ create_address_64 \/ create_address_66 \/ create_address_67
    \/ list_addresses_77
    \/ get_address_94 \/ get_address_96
    \/ update_address_100 \/ update_address_102 \/ update_address_104 \/ update_address_105

SpecThreads == InitThreads /\ [][NextThreads]_vars

(***************************************************************************)
(* Properties                                                              *)
(***************************************************************************)
\* This step is the handling of a request to `op`.
Handled(op) == resp = Idle /\ resp'.op = op

\* The store a handler works on.
StoreOf(op) ==
    CASE op \in {"create_person", "update_person", "get_person", "list_persons"} -> persons
      [] op \in {"create_address", "update_address", "get_address", "list_addresses"} -> addresses
      [] op \in {"create_allergy", "update_allergy", "get_allergy", "list_allergies"} -> allergies
      [] OTHER -> medications

CreateOps == {"create_person", "create_address", "create_allergy", "create_medication"}

UpdateOps == {"update_person", "update_address", "update_allergy", "update_medication"}

ListOps == {"list_persons", "list_addresses", "list_allergies", "list_medications"}

\* C1: for each of the four kinds, a create whose id is already a key of that
\* kind's store is answered 400 and leaves that store as it was.
C1_DuplicateCreateRejected ==
    [][\A op \in CreateOps :
          (Handled(op) /\ dict_contains(StoreOf(op), resp'.req.id))
              => (resp'.status = 400 /\ StoreOf(op)' = StoreOf(op))]_vars

UpdateFieldsOf(op) ==
    CASE op = "update_person" -> PersonUpdateFields
      [] op = "update_address" -> AddressUpdateFields
      [] op = "update_allergy" -> AllergyUpdateFields
      [] OTHER -> MedicationUpdateFields

OptionalOf(op) ==
    CASE op \in {"create_person", "update_person", "list_persons"} -> PersonOptional
      [] op \in {"create_address", "update_address", "list_addresses"} -> AddressOptional
      [] op \in {"create_allergy", "update_allergy", "list_allergies"} -> AllergyOptional
      [] OTHER -> MedicationOptional

\* Field f of record r as a Python value: None or <<v>>.
PyValue(op, r, f) == IF f \in OptionalOf(op) THEN r[f] ELSE Some(r[f])

\* C3: after a successful update every updatable field that the payload does
\* not mention has its stored value, and every field the payload mentions,
\* with a value or with an explicit null, has the payload's value.
C3_TriStateMerge ==
    [][\A op \in UpdateOps :
          (Handled(op) /\ resp'.status = 200)
              => LET u   == resp'.req.update
                     old == dict_getitem(StoreOf(op), resp'.req.id)
                     new == dict_getitem(StoreOf(op)', resp'.req.id)
                 IN  \A f \in UpdateFieldsOf(op) :
                        IF f \in DOMAIN u
                        THEN PyValue(op, new, f) = u[f]
                        ELSE new[f] = old[f]]_vars

\* C3 witness: {reaction: null} was applied to an Allergy, whose reaction is
\* now empty and whose severity, not mentioned, is "severe".
C3_Witness ==
    /\ resp.op = "update_allergy"
    /\ resp.status = 200
    /\ DOMAIN resp.req.update = {"reaction"}
    /\ resp.req.update.reaction = None
    /\ resp.body.reaction = None
    /\ resp.body.severity = "severe"
    /\ dict_getitem(allergies, resp.req.id) = resp.body

\* C4: every successful update sets the record's updated_at to the time of
\* the update.
C4_UpdateRefreshesUpdatedAt ==
    [][\A op \in UpdateOps :
          (Handled(op) /\ resp'.status = 200)
              => dict_getitem(StoreOf(op)', resp'.req.id).updated_at = now]_vars

\* C5: every stored record of every kind has updated_at >= created_at.
C5_UpdatedNotBeforeCreated ==
    \A store \in {persons, addresses, allergies, medications} :
        \A i \in DOMAIN store : store[i].v.updated_at >= store[i].v.created_at

\* C5 witness: an Allergy created while the clock moved has been updated.
C5_Witness ==
    /\ resp.op = "update_allergy"
    /\ resp.status = 200
    /\ resp.body.created_at < resp.body.updated_at
    /\ resp.body.updated_at <= now
    /\ dict_getitem(allergies, resp.req.id) = resp.body

GetResponseOf(op, id) ==
    CASE op = "create_person" -> get_person_response(id)
      [] op = "create_address" -> get_address_response(id)
      [] op = "create_allergy" -> get_allergy_response(id)
      [] OTHER -> get_medication_response(id)

\* C6: a get right after a successful create returns the field values of the
\* create payload, with created_at = updated_at, both at or after the time
\* the create began.
C6_CreateThenGet ==
    [][\A op \in CreateOps, id \in Ids :
          (Handled(op) /\ resp'.status = 201 /\ resp'.req.id = id)
              => LET got == GetResponseOf(op, id)'
                 IN  /\ got.status = 200
                     /\ \A f \in DOMAIN resp'.req : got.body[f] = resp'.req[f]
                     /\ got.body.created_at = got.body.updated_at
                     /\ got.body.created_at >= now]_vars

RECURSIVE IsSubseq(_, _)
\* s is t with some elements left out.
IsSubseq(s, t) ==
    IF s = <<>> THEN TRUE
    ELSE IF t = <<>> THEN FALSE
    ELSE IF Head(s) = Head(t) THEN IsSubseq(Tail(s), Tail(t))
    ELSE IsSubseq(s, Tail(t))

\* The keys of `after` are those of `before` in the same order, then at most
\* one new key.
KeysKeepOrder(before, after) ==
    LET k == dict_keys(before)
        l == dict_keys(after)
    IN  \/ l = k
        \/ /\ Len(l) = Len(k) + 1
           /\ SubSeq(l, 1, Len(k)) = k
           /\ \A i \in DOMAIN k : k[i] # l[Len(l)]

DateFields == {"noted_date", "start_date", "end_date", "birth_date"}

\* Record r satisfies the equality predicate (f, value) of a list of op's
\* kind: dates by their calendar-date string, a null field never, a Person's
\* city and country by some embedded address.
Satisfies(op, r, f, value) ==
    IF op = "list_persons" /\ f \in {"city", "country"}
    THEN \E i \in DOMAIN r.addresses : r.addresses[i][f] = value
    ELSE IF f \in DateFields
    THEN r[f] # None /\ date_isoformat(r[f][1]) = value
    ELSE IF f \in OptionalOf(op)
    THEN r[f] = Some(value)
    ELSE r[f] = value

\* C8: a list returns exactly the stored records that satisfy every supplied
\* equality predicate, in store order; a filter not supplied does not
\* constrain.
C8_ConjunctiveFilter ==
    \A op \in ListOps :
        resp.op = op
            => resp.body =
                  SelectSeq(dict_values(StoreOf(op)),
                            LAMBDA r : \A f \in DOMAIN resp.req :
                                          resp.req[f] # None
                                              => Satisfies(op, r, f, resp.req[f][1]))

\* C9: a record whose optional date is null is in no list that filters on
\* that date, whatever the filter value.
C9_NullNeverMatches ==
    \A op \in ListOps :
        resp.op = op
            => \A f \in (DOMAIN resp.req) \cap DateFields :
                  resp.req[f] # None
                      => \A i \in DOMAIN resp.body : resp.body[i][f] # None

\* C10: a list of Persons with a city (country) filter returns only Persons
\* one of whose embedded addresses has that city (country), each filter by an
\* address of its own; when no other filter is supplied it returns all of
\* them, and so never a Person without addresses.
C10_ExistentialAddressFilter ==
    resp.op = "list_persons"
        => LET q == resp.req
               HasCity(p) == \E i \in DOMAIN p.addresses : p.addresses[i].city = q.city[1]
               HasCountry(p) ==
                   \E i \in DOMAIN p.addresses : p.addresses[i].country = q.country[1]
               Matches(p) == /\ q.city # None => HasCity(p)
                             /\ q.country # None => HasCountry(p)
           IN  /\ \A i \in DOMAIN resp.body : Matches(resp.body[i])
               /\ (\A f \in (DOMAIN q) \ {"city", "country"} : q[f] = None)
                     => resp.body = SelectSeq(dict_values(persons), Matches)

\* C10 witness: a Person living in NYC, USA and in London, UK is returned for
\* city=NYC and country=UK, next to a stored Person it does not return.
C10_Witness ==
    /\ resp.op = "list_persons"
    /\ resp.req.city = Some("NYC")
    /\ resp.req.country = Some("UK")
    /\ Len(resp.body) = 1
    /\ resp.body[1].addresses = <<Home("NYC", "USA"), Home("London", "UK")>>
    /\ Len(persons) = 2

\* C11: a create of an Address under an id not yet in the store succeeds and
\* stores the payload's field values; a second create under the same id is
\* answered 400 and the Address stored under the id stays what it was.
C11_SecondAddressCreateRejected ==
    [][Handled("create_address")
          => LET a == resp'.req IN
             IF dict_contains(addresses, a.id)
             THEN /\ resp'.status = 400
                  /\ dict_getitem(addresses', a.id) = dict_getitem(addresses, a.id)
                  /\ addresses' = addresses
             ELSE /\ resp'.status = 201
                  /\ dict_contains(addresses', a.id)
                  /\ \A f \in DOMAIN a : dict_getitem(addresses', a.id)[f] = a[f]]_vars

\* C11 witness: a second create, with city SF, was refused under the id of an
\* Address created with city NYC, which is stored as it was created.
C11_Witness ==
    /\ resp.op = "create_address"
    /\ resp.status = 400
    /\ resp.req.city = "SF"
    /\ dict_contains(addresses, resp.req.id)
    /\ dict_getitem(addresses, resp.req.id).city = "NYC"
    /\ dict_getitem(addresses, resp.req.id).state = None

GetOps == {"get_person", "get_address", "get_allergy", "get_medication"}

\* The id a get or an update is addressed to.
TargetId(op, req) == IF op \in GetOps THEN req ELSE req.id

\* C12: for every kind, a get or an update addressed to an id that is not a
\* key of the kind's store is answered 404, puts no record under the id and
\* leaves the four stores as they were.
C12_UnknownIdNotFound ==
    [][\A op \in GetOps \cup UpdateOps :
          (Handled(op) /\ ~dict_contains(StoreOf(op), TargetId(op, resp'.req)))
              => /\ resp'.status = 404
                 /\ resp'.body = NoBody
                 /\ ~dict_contains(StoreOf(op)', TargetId(op, resp'.req))
                 /\ stores' = stores]_vars

\* C12 witness: with an Allergy stored under one id, an update addressed to
\* the other id was answered 404 and the other id is still not a key.
C12_Witness ==
    /\ resp.op = "update_allergy"
    /\ resp.status = 404
    /\ Len(allergies) = 1
    /\ allergies[1].k # resp.req.id
    /\ ~dict_contains(allergies, resp.req.id)

\* C13: whatever the payload, keys id, person_id or created_at included, a
\* successful update leaves the record's id, its person_id (Allergy,
\* Medication) and its created_at as they were before the update.
C13_UpdateKeepsIdentity ==
    [][\A op \in UpdateOps :
          (Handled(op) /\ resp'.status = 200)
              => LET old == dict_getitem(StoreOf(op), resp'.req.id)
                     new == dict_getitem(StoreOf(op)', resp'.req.id)
                 IN  /\ new.id = old.id
                     /\ new.created_at = old.created_at
                     /\ op \in {"update_allergy", "update_medication"}
                           => new.person_id = old.person_id]_vars

\* C13 witness: an update of an Allergy whose body names another id, another
\* person_id and another created_at has set the reaction and none of these.
C13_Witness ==
    /\ resp.op = "update_allergy"
    /\ resp.status = 200
    /\ {"id", "person_id", "created_at"} \subseteq DOMAIN resp.req.update
    /\ resp.req.update.id # Some(resp.req.id)
    /\ resp.body.id = resp.req.id
    /\ resp.body.person_id # resp.req.update.person_id[1]
    /\ resp.body.created_at # resp.req.update.created_at[1]
    /\ resp.body.reaction = Some("Rash")
    /\ dict_getitem(allergies, resp.req.id) = resp.body

\* The ids under which a store holds a record.
KeySet(d) == {d[i].k : i \in DOMAIN d}

\* C14: no step removes an entry: the ids of each of the four stores in one
\* state are ids of that store in the next state, and so in every later one.
C14_StoresOnlyGrow ==
    [][/\ KeySet(persons) \subseteq KeySet(persons')
       /\ KeySet(addresses) \subseteq KeySet(addresses')
       /\ KeySet(allergies) \subseteq KeySet(allergies')
       /\ KeySet(medications) \subseteq KeySet(medications')
       /\ Len(persons') >= Len(persons)
       /\ Len(addresses') >= Len(addresses)
       /\ Len(allergies') >= Len(allergies)
       /\ Len(medications') >= Len(medications)]_vars

\* C14 witness: a second create of a Person under the id stored first, with
\* another Person stored after it: both ids are still keys.
C14_Witness ==
    /\ resp.op = "create_person"
    /\ resp.status = 201
    /\ Len(persons) = 2
    /\ persons[1].k = resp.req.id
    /\ persons[1].v = resp.body
    /\ persons[2].k # resp.req.id

\* The stores of the kinds other than op's.
OtherStores(op) ==
    CASE op \in {"create_person", "update_person"} -> <<addresses, allergies, medications>>
      [] op \in {"create_address", "update_address"} -> <<persons, allergies, medications>>
      [] op \in {"create_allergy", "update_allergy"} -> <<persons, addresses, medications>>
      [] OTHER -> <<persons, addresses, allergies>>

\* C15: a create under an id that is not a key of its own kind's store is
\* not refused as a duplicate, whatever the other stores hold under that id
\* (an Allergy or Medication naming a stored Person is then created), and a
\* create or update of one kind leaves the stores of the other three kinds
\* as they were.
C15_NamespacesIsolated ==
    [][/\ \A op \in CreateOps \cup UpdateOps :
             Handled(op) => OtherStores(op)' = OtherStores(op)
       /\ \A op \in CreateOps :
             (Handled(op) /\ ~dict_contains(StoreOf(op), resp'.req.id))
                 => /\ resp'.status # 201 => resp'.detail = "person_id does not exist"
                    /\ (op \in {"create_person", "create_address"}
                        \/ dict_contains(persons, resp'.req.person_id))
                          => resp'.status = 201]_vars

\* C15 witness: an Allergy was created under the very id that is a key of
\* the Person store, and both records are stored.
C15_Witness ==
    /\ resp.op = "create_allergy"
    /\ resp.status = 201
    /\ dict_contains(persons, resp.req.id)
    /\ dict_contains(allergies, resp.req.id)
    /\ dict_getitem(persons, resp.req.id).id = dict_getitem(allergies, resp.req.id).id

\* The fields of op's kind that a stored record cannot hold as null.
NonNullableOf(op) == UpdateFieldsOf(op) \ OptionalOf(op)

\* C16: an update either is answered 200 and stores the record merged of the
\* stored one and of the whole payload, or fails and leaves the four stores
\* as they were; it fails for an unknown id and for a payload that gives a
\* null to a field that cannot be null.
C16_UpdateApplyOrNothing ==
    [][\A op \in UpdateOps :
          Handled(op)
              => LET id == resp'.req.id
                     u  == resp'.req.update
                 IN  IF resp'.status = 200
                     THEN /\ dict_contains(StoreOf(op), id)
                          /\ \A f \in NonNullableOf(op) : f \in DOMAIN u => u[f] # None
                          /\ LET old == dict_getitem(StoreOf(op), id)
                                 new == dict_getitem(StoreOf(op)', id)
                             IN  \A f \in DOMAIN old :
                                    IF f \in (DOMAIN u) \cap UpdateFieldsOf(op)
                                    THEN PyValue(op, new, f) = u[f]
                                    ELSE new[f] = old[f]
                          /\ resp'.body = dict_getitem(StoreOf(op)', id)
                     ELSE /\ stores' = stores
                          /\ resp'.body = NoBody
                          /\ \/ ~dict_contains(StoreOf(op), id)
                             \/ \E f \in NonNullableOf(op) : f \in DOMAIN u /\ u[f] = None]_vars

\* C16 witness: an update of an Allergy that gives a reaction and a null
\* allergen has failed, and the stored Allergy has no reaction.
C16_Witness ==
    /\ resp.op = "update_allergy"
    /\ resp.status = 500
    /\ DOMAIN resp.req.update = {"allergen", "reaction"}
    /\ resp.req.update.allergen = None
    /\ resp.req.update.reaction = Some("Rash")
    /\ dict_contains(allergies, resp.req.id)
    /\ dict_getitem(allergies, resp.req.id).reaction = None
    /\ dict_getitem(allergies, resp.req.id).allergen = "Peanuts"

C20_KeyIsRecordId ==
    \A store \in {persons, addresses, allergies, medications} :
        \A i \in DOMAIN store : store[i].v.id = store[i].k

\* C20 witness: an Address was updated with a body that names another id,
\* and a Person was stored twice under one id; each still has its key as id.
C20_Witness ==
    /\ resp.op = "update_address"
    /\ resp.status = 200
    /\ "id" \in DOMAIN resp.req.update
    /\ resp.req.update.id # Some(resp.req.id)
    /\ dict_getitem(addresses, resp.req.id).id = resp.req.id
    /\ Len(persons) = 1
    /\ persons[1].v.created_at > 0

KindOf(op) ==
    CASE op \in {"create_person", "update_person", "get_person", "list_persons"} -> "person"
      [] op \in {"create_address", "update_address", "get_address", "list_addresses"} -> "address"
      [] op \in {"create_allergy", "update_allergy", "get_allergy", "list_allergies"} -> "allergy"
      [] OTHER -> "medication"

\* The states of the threads that have assigned a record to the store of
\* `kind` under id.
Writers(kind, id) ==
    {t \in BagToSet(threads) : /\ KindOf(t.op) = kind
                               /\ DOMAIN t.record # {}
                               /\ t.record.id = id}

\* C17: when two updates of one record with payloads of disjoint fields have
\* both been answered 200, and no thread but them and the record's one
\* create has assigned the record, the stored record has the values of both
\* payloads, however the lines of the two handlers were interleaved.
C17_NoLostUpdate ==
    \A a, b \in BagToSet(threads) :
        (/\ a # b
         /\ a.op \in UpdateOps
         /\ b.op = a.op
         /\ a.req.id = b.req.id
         /\ a.resp.status = 200
         /\ b.resp.status = 200
         /\ (DOMAIN a.req.update) \cap (DOMAIN b.req.update) = {}
         /\ \E c \in BagToSet(threads) :
               /\ c.op \in CreateOps
               /\ Writers(KindOf(a.op), a.req.id) = {c, a, b}
               /\ \A w \in {c, a, b} : CopiesIn(w, threads) = 1)
            => LET r == dict_getitem(StoreOf(a.op), a.req.id)
               IN  /\ \A f \in DOMAIN a.req.update : PyValue(a.op, r, f) = a.req.update[f]
                   /\ \A f \in DOMAIN b.req.update : PyValue(b.op, r, f) = b.req.update[f]

\* The records that threads have built and assigned under id.
Assigned(kind, id) == {t.record : t \in Writers(kind, id)}

\* C18: a record that a get or a list returns is a record that a create or
\* an update built whole and assigned: the one stored before or the one
\* stored after an operation that runs at the same time; and a record that
\* an update assigned has the values of the whole payload.
C18_ReadersSeeWholeRecords ==
    \A th \in BagToSet(threads) :
        /\ (th.op \in GetOps /\ th.resp.status = 200)
              => th.resp.body \in Assigned(KindOf(th.op), th.req)
        /\ (th.op \in ListOps /\ th.resp.status = 200)
              => \A i \in DOMAIN th.resp.body :
                    th.resp.body[i] \in Assigned(KindOf(th.op), th.resp.body[i].id)
        /\ (th.op \in UpdateOps /\ DOMAIN th.record # {})
              => \A f \in (DOMAIN th.req.update) \cap UpdateFieldsOf(th.op) :
                    PyValue(th.op, th.record, f) = th.req.update[f]

\* C18 witness: a get has returned the record that an update of two fields
\* of the same Allergy assigned, while the update has not yet returned.
C18_Witness ==
    \E g, u \in BagToSet(threads) :
        /\ g.op = "get_allergy"
        /\ u.op = "update_allergy"
        /\ u.req.id = g.req
        /\ DOMAIN u.req.update = {"severity", "noted_date"}
        /\ u.pc = 219
        /\ g.resp.status = 200
        /\ g.resp.body = u.record
        /\ g.resp.body.severity = "severe"
        /\ g.resp.body.noted_date = Some(D1)

\* C21: of the creates of one kind under one id that threads handle at the
\* same time, at most one is answered 201; and when all of them have
\* returned and no update has assigned the record, the record stored under
\* the id has the field values of the payload of the create answered 201.
C21_OneCreateWins ==
    \A a \in BagToSet(threads) :
        (a.op \in CreateOps /\ a.resp.status = 201)
            => /\ CopiesIn(a, threads) = 1
               /\ \A b \in BagToSet(threads) :
                     (b # a /\ b.op = a.op /\ b.req.id = a.req.id) => b.resp.status # 201
               /\ (/\ \A c \in BagToSet(threads) :
                         (c.op = a.op /\ c.req.id = a.req.id) => c.pc = 0
                   /\ \A w \in Writers(KindOf(a.op), a.req.id) : w.op \in CreateOps)
                     => \A f \in DOMAIN a.req :
                           dict_getitem(StoreOf(a.op), a.req.id)[f] = a.req[f]

====
